---- MODULE Spec2Model ----
(***************************************************************************)
(* Model of llama_index/langchain_helpers/sql_wrapper.py: the SQLDatabase  *)
(* wrapper (get_table_columns, get_single_table_info, insert_into_table,   *)
(* run_sql) over an inspector, a metadata object and an engine.            *)
(*                                                                         *)
(* Python strings are sequences of one-character strings, so that slicing  *)
(* (table_str[:-1]) and joining act on characters.  An optional value      *)
(* (None or a value) is a sequence of length at most one.                  *)
(***************************************************************************)
EXTENDS Integers, Sequences, FiniteSets

\* db: the committed contents of the database, table name -> rows in order
\* metaTables: the table names of self._metadata.tables
\* inspector: what self._inspector reports, table name -> columns, foreign keys
\* inserted: history, the (table, row) pairs insert_into_table has stored
\* created: history, the tables a CREATE TABLE passed to run_sql has made
\* ret: the last call, its arguments and its outcome
VARIABLES db, metaTables, inspector, inserted, created, ret

vars == <<db, metaTables, inspector, inserted, created, ret>>

----------------------------------------------------------------------------
(* Bounds of the model *)

\* longest column list of a table in the inspector's catalog
MaxCols == 2
\* most foreign keys of a table in the inspector's catalog
MaxFks == 1
\* most committed rows of one table
MaxRows == 2

----------------------------------------------------------------------------
(* Python values *)

None == << >>
Some(v) == <<v>>

Range(s) == {s[i] : i \in 1..Len(s)}

\* s[:-1]
DropLast(s) == IF Len(s) = 0 THEN s ELSE SubSeq(s, 1, Len(s) - 1)

RECURSIVE Join(_, _)
\* sep.join(items)
Join(sep, items) ==
    IF Len(items) = 0 THEN << >>
    ELSE IF Len(items) = 1 THEN items[1]
    ELSE items[1] \o sep \o Join(sep, Tail(items))

CommaSpace == <<",", " ">>

\* repr of a str: double quotes when the text holds a single quote and no
\* double quote, single quotes otherwise
PyReprStr(s) ==
    IF "'" \in Range(s) /\ "\"" \notin Range(s)
    THEN <<"\"">> \o s \o <<"\"">>
    ELSE <<"'">> \o s \o <<"'">>

\* str of a list of str, as an f-string renders it
PyStrList(items) ==
    <<"[">> \o Join(CommaSpace, [i \in 1..Len(items) |-> PyReprStr(items[i])]) \o <<"]">>

\* str(column['type']) of the two column types of the catalog
TypeStr(type) ==
    IF type = "Int" THEN <<"I", "N", "T", "E", "G", "E", "R">>
    ELSE <<"T", "E", "X", "T">>

----------------------------------------------------------------------------
(* The schema: table names, the inspector's catalog *)

\* tables the database may hold
Tables == {"t", "u"}
\* names a caller may pass; "z" is in no database
TableNames == Tables \cup {"z"}

\* a column's comment: None, the empty string or a text
Comments == {None, Some(<< >>), Some(<<"c">>)}

\* the inspector's column descriptors: t.x-like integer column x, text column y
ColumnPool ==
    {[name |-> <<"x">>, type |-> "Int", comment |-> c] : c \in Comments}
    \cup {[name |-> <<"y">>, type |-> "Str", comment |-> c] : c \in Comments}

\* the inspector's foreign-key descriptors
FkPool ==
    {[constrained_columns |-> <<(<<"x">>)>>, referred_table |-> <<"t">>,
      referred_columns |-> <<(<<"x">>)>>],
     [constrained_columns |-> <<(<<"x">>), (<<"y">>)>>, referred_table |-> <<"u">>,
      referred_columns |-> <<(<<"x">>), (<<"y">>)>>]}

SeqsUpTo(S, n) == UNION {[1..k -> S] : k \in 0..n}

DistinctNames(cols) ==
    \A i, j \in 1..Len(cols) : cols[i].name = cols[j].name => i = j

\* what the inspector may report for one table
TableInfos ==
    {[columns |-> cols, foreign_keys |-> fks] :
        cols \in {c \in SeqsUpTo(ColumnPool, MaxCols) : Len(c) >= 1 /\ DistinctNames(c)},
        fks \in SeqsUpTo(FkPool, MaxFks)}

----------------------------------------------------------------------------
(* get_single_table_info, lines 44-79 *)

TablePrefix == <<"T", "a", "b", "l", "e", " ", "'">>
HasColumns == <<"'", " ", "h", "a", "s", " ", "c", "o", "l", "u", "m", "n", "s", ":", " ">>
AndForeignKeys ==
    <<" ", "a", "n", "d", " ", "f", "o", "r", "e", "i", "g", "n", " ",
      "k", "e", "y", "s", ":", " ">>
DescriptionOpen ==
    <<" ", "d", "e", "s", "c", "r", "i", "p", "t", "i", "o", "n", " ", "'">>

\* template.format(table_name=..., columns=...)
Template(table_name, columns) == TablePrefix \o table_name \o HasColumns \o columns

\* base_info = f"{column['name']} ({str(column['type'])})"
BaseInfo(column) == column.name \o <<" ", "(">> \o TypeStr(column.type) \o <<")">>

\* `if col_comment:`: None and the empty string are both falsy
Truthy(comment) == comment # None /\ comment[1] # << >>

RECURSIVE ColumnEntriesAll(_)
\* the loop with the commented-out `columns.append(base_info)` restored
ColumnEntriesAll(cols) ==
    IF Len(cols) = 0 THEN << >>
    ELSE LET column == cols[1]
             entry == IF Truthy(column.comment)
                      THEN BaseInfo(column) \o DescriptionOpen
                               \o column.comment[1] \o <<"'">>
                      ELSE BaseInfo(column)
         IN  <<entry>> \o ColumnEntriesAll(Tail(cols))

RECURSIVE ColumnEntries(_)
\* the loop of lines 54-63: only a column with a truthy comment is appended
ColumnEntries(cols) ==
    IF Len(cols) = 0 THEN << >>
    ELSE LET column == cols[1]
         IN  IF Truthy(column.comment)
             THEN <<BaseInfo(column) \o DescriptionOpen
                        \o column.comment[1] \o <<"'">>>>
                      \o ColumnEntries(Tail(cols))
             ELSE ColumnEntries(Tail(cols))

\* one entry of foreign_keys, lines 67-70
ForeignKeyEntry(fk) ==
    PyStrList(fk.constrained_columns) \o <<" ", "-", ">", " ">>
        \o fk.referred_table \o <<".">> \o PyStrList(fk.referred_columns)

ForeignKeyEntries(fks) == [i \in 1..Len(fks) |-> ForeignKeyEntry(fks[i])]

\* lines 64-79 with the foreign-key clause appended to every table
TableInfoStrAlwaysFk(table_name, info) ==
    LET column_str == Join(CommaSpace, ColumnEntries(info.columns))
        foreign_keys == ForeignKeyEntries(info.foreign_keys)
        table_str == Template(table_name, column_str)
    IN  DropLast(table_str) \o AndForeignKeys \o PyStrList(foreign_keys) \o <<".">>

\* lines 64-79: the string get_single_table_info returns
TableInfoStr(table_name, info) ==
    LET column_str == Join(CommaSpace, ColumnEntries(info.columns))
        foreign_keys == ForeignKeyEntries(info.foreign_keys)
        foreign_key_str == Join(CommaSpace, foreign_keys)
        table_str == Template(table_name, column_str)
    IN  IF foreign_key_str # << >>
        THEN DropLast(table_str) \o AndForeignKeys \o PyStrList(foreign_keys) \o <<".">>
        ELSE table_str

----------------------------------------------------------------------------
(* The database behind the engine: rows, statements, connections *)

\* values of the integer column x; a cell is None (NULL) or Some(value)
Values == {1, 2}
Cells == {None} \cup {Some(v) : v \in Values}

\* the columns of every data table, in order
DataCols == <<"x">>
\* tables whose column x is a primary key (unique, not null)
Keyed == {"t"}

\* a dict is the set of its (key, value) items
Keys(dict) == {item[1] : item \in dict}
Get(dict, key) == (CHOOSE item \in dict : item[1] = key)[2]

\* the mappings a caller may pass as `data`; "q" is no column of any table
FieldChoices ==
    {{}} \cup {{<<"x", c>>} : c \in Cells}
         \cup {{<<"x", Some(1)>>, <<"q", Some(1)>>}}

\* statements: the insert construct of line 84 and the SQL texts of run_sql
NoStmt == [op |-> "none", table |-> "z", fields |-> {}]
InsertStmt(table_name, data) == [op |-> "insert", table |-> table_name, fields |-> data]
SqlTexts ==
    {[op |-> o, table |-> n, fields |-> {}] :
        o \in {"select", "delete", "create"}, n \in TableNames}
    \cup {InsertStmt(n, f) : n \in TableNames, f \in {g \in FieldChoices : "q" \notin Keys(g)}}
    \cup {[op |-> "garbage", table |-> "z", fields |-> {}]}

\* an insert that stores no value of `fields`
RowOfNulls(fields) == [i \in 1..Len(DataCols) |-> None]

\* the row an insert of `fields` stores: a column not given is NULL
RowOf(fields) ==
    [i \in 1..Len(DataCols) |->
        IF DataCols[i] \in Keys(fields) THEN Get(fields, DataCols[i]) ELSE None]

Violates(table, row, rows) ==
    table \in Keyed /\ (row[1] = None \/ \E i \in 1..Len(rows) : rows[i][1] = row[1])

\* the cursor of one statement run on the contents `work` a connection sees
Cursor(error, returns_rows, rows, work) ==
    [error |-> error, returns_rows |-> returns_rows, rows |-> rows, work |-> work]

Execute(stmt, work) ==
    IF stmt.op = "garbage" THEN Cursor("QueryError", FALSE, << >>, work)
    ELSE IF stmt.op = "create" THEN
        IF stmt.table \in DOMAIN work THEN Cursor("QueryError", FALSE, << >>, work)
        ELSE Cursor("", FALSE, << >>,
                    [n \in DOMAIN work \cup {stmt.table} |->
                        IF n \in DOMAIN work THEN work[n] ELSE << >>])
    ELSE IF stmt.table \notin DOMAIN work THEN Cursor("QueryError", FALSE, << >>, work)
    ELSE IF stmt.op = "select" THEN Cursor("", TRUE, work[stmt.table], work)
    ELSE IF stmt.op = "delete" THEN
        Cursor("", FALSE, << >>, [work EXCEPT ![stmt.table] = << >>])
    ELSE IF \E k \in Keys(stmt.fields) : k \notin Range(DataCols)
        THEN Cursor("CompileError", FALSE, << >>, work)
    ELSE IF Violates(stmt.table, RowOf(stmt.fields), work[stmt.table])
        THEN Cursor("ConstraintError", FALSE, << >>, work)
    ELSE Cursor("", FALSE, << >>,
                [work EXCEPT ![stmt.table] = Append(@, RowOf(stmt.fields))])

\* a connection: the committed contents and the contents its transaction sees
Connect(committed) == [base |-> committed, work |-> committed]
\* connection.execute: the cursor, and the connection with the statement's work
ConnExecute(conn, stmt) ==
    LET cursor == Execute(stmt, conn.work)
    IN  [cursor |-> cursor, conn |-> [conn EXCEPT !.work = cursor.work]]
ConnCommit(conn) == [conn EXCEPT !.base = conn.work]
\* leaving the `with` block: work that was not committed is discarded
ConnClose(conn) == conn.base

----------------------------------------------------------------------------
(* str(result) of run_sql, line 99 *)

Digits == <<"0", "1", "2", "3", "4", "5", "6", "7", "8", "9">>

\* repr of one cell: None or a small integer
PyReprCell(cell) ==
    IF cell = None THEN <<"N", "o", "n", "e">> ELSE <<Digits[cell[1] + 1]>>

\* repr of a row: (1,) for one column, (1, 2) for more
PyReprRow(row) ==
    IF Len(row) = 1 THEN <<"(">> \o PyReprCell(row[1]) \o <<",", ")">>
    ELSE <<"(">> \o Join(CommaSpace, [i \in 1..Len(row) |-> PyReprCell(row[i])]) \o <<")">>

\* str of the list fetchall returns
PyStrRows(rows) ==
    <<"[">> \o Join(CommaSpace, [i \in 1..Len(rows) |-> PyReprRow(rows[i])]) \o <<"]">>

----------------------------------------------------------------------------
(* The outcome of the last call *)

Ret(op, table, fields, stmt, outcome, columns, text, result, trace) ==
    [op |-> op, table |-> table, fields |-> fields, stmt |-> stmt,
     outcome |-> outcome, columns |-> columns, text |-> text,
     result |-> result, trace |-> trace]

NoRet == Ret("none", "z", {}, NoStmt, "ok", << >>, << >>, {}, << >>)

\* the catalog of the tables that hold data, one integer column x each:
\* t has no comment and no foreign key, u a comment and a foreign key to t
BasicInfo(table_name) ==
    IF table_name = "t"
    THEN [columns |-> <<[name |-> <<"x">>, type |-> "Int", comment |-> None]>>,
          foreign_keys |-> << >>]
    ELSE [columns |-> <<[name |-> <<"x">>, type |-> "Int", comment |-> Some(<<"c">>)]>>,
          foreign_keys |-> <<[constrained_columns |-> <<(<<"x">>)>>,
                              referred_table |-> <<"t">>,
                              referred_columns |-> <<(<<"x">>)>>]>>]

\* after construction the database holds the tables T: no call has been made
Constructed(T) ==
    /\ db = [n \in T |-> << >>]
    /\ inserted = {}
    /\ created = {}
    /\ ret = NoRet

\* the inspector sees the tables of the database, the metadata holds the
\* tables that were reflected
Init ==
    \E T \in SUBSET Tables \ {{}} :
        /\ Constructed(T)
        /\ inspector = [n \in T |-> BasicInfo(n)]
        /\ metaTables \in SUBSET T

\* any catalog of the bounded schema, every table reflected
InitInfo ==
    \E T \in SUBSET Tables \ {{}} :
        /\ Constructed(T)
        /\ inspector \in [T -> TableInfos]
        /\ metaTables = T

----------------------------------------------------------------------------
(* The operations *)

\* self._inspector.get_columns(table_name) raises for a table it does not know
InspectorKnows(catalog, table_name) == table_name \in DOMAIN catalog

\* a lookup that finds a table object for every name
MetadataLookupAny(tables, table_name) == TRUE

\* self._metadata.tables[table_name] raises for a name it does not hold
MetadataLookup(tables, table_name) == table_name \in tables

\* lines 40-42
get_table_columns ==
    \E table_name \in TableNames :
        /\ ret' = IF InspectorKnows(inspector, table_name)
                  THEN Ret("get_table_columns", table_name, {}, NoStmt, "ok",
                           inspector[table_name].columns, << >>, {}, << >>)
                  ELSE Ret("get_table_columns", table_name, {}, NoStmt, "SchemaError",
                           << >>, << >>, {}, << >>)
        /\ UNCHANGED <<db, metaTables, inspector, inserted, created>>

\* lines 44-79
get_single_table_info ==
    \E table_name \in TableNames :
        /\ ret' = IF InspectorKnows(inspector, table_name)
                  THEN Ret("get_single_table_info", table_name, {}, NoStmt, "ok", << >>,
                           TableInfoStr(<<table_name>>, inspector[table_name]), {}, << >>)
                  ELSE Ret("get_single_table_info", table_name, {}, NoStmt, "SchemaError",
                           << >>, << >>, {}, << >>)
        /\ UNCHANGED <<db, metaTables, inspector, inserted, created>>

\* lines 85-87 with the commit left out
InsertOnConnectionNoCommit(committed, stmt) ==
    LET run == ConnExecute(Connect(committed), stmt)
    IN  IF run.cursor.error # ""
        THEN [outcome |-> run.cursor.error, trace |-> <<"connect", "execute", "close">>,
              db |-> ConnClose(run.conn)]
        ELSE [outcome |-> "ok", trace |-> <<"connect", "execute", "close">>,
              db |-> ConnClose(run.conn)]

\* lines 85-87: connect, execute, commit; an exception leaves the block early
InsertOnConnection(committed, stmt) ==
    LET run == ConnExecute(Connect(committed), stmt)
    IN  IF run.cursor.error # ""
        THEN [outcome |-> run.cursor.error, trace |-> <<"connect", "execute", "close">>,
              db |-> ConnClose(run.conn)]
        ELSE [outcome |-> "ok", trace |-> <<"connect", "execute", "commit", "close">>,
              db |-> ConnClose(ConnCommit(run.conn))]

\* lines 81-87
insert_into_table ==
    \E table_name \in TableNames, data \in FieldChoices :
        /\ table_name \in DOMAIN db => Len(db[table_name]) < MaxRows
        /\ IF ~MetadataLookup(metaTables, table_name)
           THEN /\ ret' = Ret("insert_into_table", table_name, data, NoStmt, "SchemaError",
                              << >>, << >>, {}, << >>)
                /\ UNCHANGED <<db, inserted>>
           ELSE LET stmt == InsertStmt(table_name, data)
                    done == InsertOnConnection(db, stmt)
                IN  /\ ret' = Ret("insert_into_table", table_name, data, stmt,
                                  done.outcome, << >>, << >>, {}, done.trace)
                    /\ db' = done.db
                    /\ inserted' = IF done.outcome = "ok"
                                   THEN inserted \cup {<<table_name, RowOf(data)>>}
                                   ELSE inserted
        /\ UNCHANGED <<metaTables, inspector, created>>

\* lines 95-100 with a commit before the connection is released
RunOnConnectionCommit(committed, command) ==
    LET run == ConnExecute(Connect(committed), command)
    IN  IF run.cursor.error # ""
        THEN [outcome |-> run.cursor.error, text |-> << >>, result |-> {},
              trace |-> <<"connect", "execute", "close">>, db |-> ConnClose(run.conn)]
        ELSE IF run.cursor.returns_rows
        THEN [outcome |-> "ok", text |-> PyStrRows(run.cursor.rows),
              result |-> {<<"result", run.cursor.rows>>},
              trace |-> <<"connect", "execute", "fetchall", "commit", "close">>,
              db |-> ConnClose(ConnCommit(run.conn))]
        ELSE [outcome |-> "ok", text |-> << >>, result |-> {},
              trace |-> <<"connect", "execute", "commit", "close">>,
              db |-> ConnClose(ConnCommit(run.conn))]

\* lines 95-100 fetching one row where the code fetches all
RunOnConnectionFetchOne(committed, command) ==
    LET run == ConnExecute(Connect(committed), command)
        first == IF Len(run.cursor.rows) = 0 THEN << >> ELSE <<run.cursor.rows[1]>>
    IN  IF run.cursor.error # ""
        THEN [outcome |-> run.cursor.error, text |-> << >>, result |-> {},
              trace |-> <<"connect", "execute", "close">>, db |-> ConnClose(run.conn)]
        ELSE IF run.cursor.returns_rows
        THEN [outcome |-> "ok", text |-> PyStrRows(first),
              result |-> {<<"result", first>>},
              trace |-> <<"connect", "execute", "fetchall", "close">>,
              db |-> ConnClose(run.conn)]
        ELSE [outcome |-> "ok", text |-> << >>, result |-> {},
              trace |-> <<"connect", "execute", "close">>, db |-> ConnClose(run.conn)]

\* lines 95-100: connect, execute, fetch when the cursor returns rows
RunOnConnection(committed, command) ==
    LET run == ConnExecute(Connect(committed), command)
    IN  IF run.cursor.error # ""
        THEN [outcome |-> run.cursor.error, text |-> << >>, result |-> {},
              trace |-> <<"connect", "execute", "close">>, db |-> ConnClose(run.conn)]
        ELSE IF run.cursor.returns_rows
        THEN [outcome |-> "ok", text |-> PyStrRows(run.cursor.rows),
              result |-> {<<"result", run.cursor.rows>>},
              trace |-> <<"connect", "execute", "fetchall", "close">>,
              db |-> ConnClose(run.conn)]
        ELSE [outcome |-> "ok", text |-> << >>, result |-> {},
              trace |-> <<"connect", "execute", "close">>, db |-> ConnClose(run.conn)]

\* run_sql's call and return: what it hands back and what it leaves committed
RunSqlCall(command) ==
    LET done == RunOnConnection(db, command)
    IN  /\ ret' = Ret("run_sql", command.table, {}, command, done.outcome, << >>,
                      done.text, done.result, done.trace)
        /\ db' = done.db
        /\ created' = IF command.op = "create" /\ done.outcome = "ok"
                      THEN created \cup {command.table}
                      ELSE created

\* run_sql reflecting a table it creates into the metadata
run_sql_reflecting ==
    \E command \in SqlTexts :
        /\ RunSqlCall(command)
        /\ metaTables' = IF command.op = "create" /\ ret'.outcome = "ok"
                         THEN metaTables \cup {command.table}
                         ELSE metaTables
        /\ UNCHANGED <<inspector, inserted>>

\* lines 89-100
run_sql ==
    \E command \in SqlTexts :
        /\ RunSqlCall(command)
        /\ UNCHANGED <<metaTables, inspector, inserted>>

Next ==
    \/ get_table_columns
    \/ get_single_table_info
    \/ insert_into_table
    \/ run_sql

Spec == Init /\ [][Next]_vars

NextInfo ==
    \/ get_table_columns
    \/ get_single_table_info

SpecInfo == InitInfo /\ [][NextInfo]_vars

----------------------------------------------------------------------------
(* Properties *)

IsPrefix(p, s) == Len(p) <= Len(s) /\ SubSeq(s, 1, Len(p)) = p
IsSuffix(p, s) == Len(p) <= Len(s) /\ SubSeq(s, Len(s) - Len(p) + 1, Len(s)) = p
HasSubstr(s, p) == \E i \in 0..(Len(s) - Len(p)) : SubSeq(s, i + 1, i + Len(p)) = p

Described == ret.op = "get_single_table_info" /\ ret.outcome = "ok"
RanSql == ret.op = "run_sql" /\ ret.outcome = "ok"

\* a column as the description is to show it
RenderedColumn(column) ==
    IF Truthy(column.comment)
    THEN column.name \o <<" ", "(">> \o TypeStr(column.type) \o <<")">>
             \o DescriptionOpen \o column.comment[1] \o <<"'">>
    ELSE column.name \o <<" ", "(">> \o TypeStr(column.type) \o <<")">>

\* "Table '<name>' has columns: " and the columns `cols`, joined by ", "
ColumnClause(table_name, cols) ==
    TablePrefix \o <<table_name>> \o HasColumns
        \o Join(CommaSpace, [i \in 1..Len(cols) |-> RenderedColumn(cols[i])])

HasComment(column) == Truthy(column.comment)
CommentedColumns(cols) == SelectSeq(cols, HasComment)

\* the text shows the clause: whole for a table without foreign keys, and up
\* to its last character, followed by the foreign-key clause, for one with
ShowsClause(clause, info, text) ==
    IF info.foreign_keys = << >> THEN text = clause
    ELSE IsPrefix(DropLast(clause) \o AndForeignKeys, text)

C2_InsertedRowSelected ==
    /\ \A p \in inserted :
           p[1] \in DOMAIN db /\ \E i \in 1..Len(db[p[1]]) : db[p[1]][i] = p[2]
    /\ (RanSql /\ ret.stmt.op = "select") =>
           \A p \in inserted :
               p[1] = ret.table =>
                   \E rows \in {item[2] : item \in ret.result} :
                       \E i \in 1..Len(rows) : rows[i] = p[2]

\* a SELECT over t returned the row (2,) after rows went into t and into u
C2_Witness ==
    /\ RanSql /\ ret.stmt.op = "select" /\ ret.table = "t"
    /\ <<"t", <<Some(2)>>>> \in inserted
    /\ \E p \in inserted : p[1] = "u"
    /\ \E rows \in {item[2] : item \in ret.result} :
           \E i \in 1..Len(rows) : rows[i] = <<Some(2)>>

\* C3 as stated: the description lists every column of the table in
\* inspector order, a column without a comment as "name (type)".
C3_AllColumnsListed ==
    Described =>
        ShowsClause(ColumnClause(ret.table, inspector[ret.table].columns),
                    inspector[ret.table], ret.text)

\* C3 as amended: the description lists, in inspector order, exactly the
\* columns with a non-empty comment, each as "name (type) description
\* 'comment'"; a column whose comment is empty or None is left out.
C3_CommentedColumnsListed ==
    Described =>
        ShowsClause(ColumnClause(ret.table, CommentedColumns(inspector[ret.table].columns)),
                    inspector[ret.table], ret.text)

\* a table of two columns was described, one with a comment, one without
C3_Witness ==
    /\ Described
    /\ LET cols == inspector[ret.table].columns
       IN  /\ Len(cols) = 2
           /\ \E i, j \in 1..2 : HasComment(cols[i]) /\ ~HasComment(cols[j])

\* C4: the description of a table with foreign keys is the whole column
\* clause of the same table without them, followed by " and foreign keys: ["
\* ... "].".
C4_ForeignKeysAfterWholeClause ==
    (Described /\ inspector[ret.table].foreign_keys # << >>) =>
        /\ IsPrefix(TableInfoStr(<<ret.table>>,
                                 [inspector[ret.table] EXCEPT !.foreign_keys = << >>])
                        \o AndForeignKeys \o <<"[">>,
                    ret.text)
        /\ IsSuffix(<<"]", ".">>, ret.text)

\* C5: the description of a table without foreign keys is "Table '<name>'
\* has columns: " and the column entries joined by ", ", with nothing after
\* them: no foreign-key clause and no period.
C5_NoForeignKeysNoClause ==
    (Described /\ inspector[ret.table].foreign_keys = << >>) =>
        /\ ret.text = ColumnClause(ret.table,
                                   CommentedColumns(inspector[ret.table].columns))
        /\ ~HasSubstr(ret.text, AndForeignKeys)
        /\ ret.text[Len(ret.text)] # "."

\* a table without foreign keys and with two commented columns was described
C5_Witness ==
    /\ Described
    /\ inspector[ret.table].foreign_keys = << >>
    /\ Len(CommentedColumns(inspector[ret.table].columns)) = 2
    /\ HasSubstr(ret.text, <<"'", ",", " ">>)

C7_RunSqlNeverCommits ==
    [][/\ ret'.op = "run_sql" =>
              /\ db' = db
              /\ \A i \in 1..Len(ret'.trace) : ret'.trace[i] # "commit"
       /\ (ret'.op = "insert_into_table" /\ ret'.outcome = "ok") =>
              ret'.trace = <<"connect", "execute", "commit", "close">>]_vars

\* an INSERT passed to run_sql succeeded and its row is not in the table
C7_Witness ==
    /\ RanSql
    /\ ret.stmt = InsertStmt("u", {<<"x", Some(1)>>})
    /\ db["u"] = << >>

\* C8: a failing insert_into_table reaches no commit and leaves the committed
\* contents as they were; one that returns has added exactly one row, with
\* the given values, to its table and to no other, and has committed it.
C8_InsertAllOrNothing ==
    [][ret'.op = "insert_into_table" =>
          IF ret'.outcome = "ok"
          THEN LET t == ret'.table
               IN  /\ DOMAIN db' = DOMAIN db
                   /\ \A n \in DOMAIN db \ {t} : db'[n] = db[n]
                   /\ Len(db'[t]) = Len(db[t]) + 1
                   /\ SubSeq(db'[t], 1, Len(db[t])) = db[t]
                   /\ \A i \in 1..Len(DataCols) :
                          DataCols[i] \in Keys(ret'.fields) =>
                              db'[t][Len(db'[t])][i] = Get(ret'.fields, DataCols[i])
                   /\ \E i \in 1..Len(ret'.trace) : ret'.trace[i] = "commit"
          ELSE /\ db' = db
               /\ \A i \in 1..Len(ret'.trace) : ret'.trace[i] # "commit"]_vars

\* an insert into t failed on its primary key, executed and not committed
C8_Witness ==
    /\ ret.op = "insert_into_table"
    /\ ret.outcome = "ConstraintError"
    /\ ret.fields = {<<"x", Some(1)>>}
    /\ ret.trace = <<"connect", "execute", "close">>
    /\ db["t"] = <<(<<Some(1)>>)>>

\* C9: when the statement run_sql ran returned no rows, a query with an empty
\* result set included, the display string is empty.
C9_NoRowsEmptyString ==
    (RanSql /\ ret.result \subseteq {<<"result", << >>>>}) => ret.text = << >>

\* C10: no call changes the tables the metadata holds, so insert_into_table
\* on a table made by a CREATE TABLE passed to run_sql ends in SchemaError.
C10_MetadataNeverMutated ==
    [][/\ metaTables' = metaTables
       /\ (ret'.op = "insert_into_table" /\ ret'.table \in created') =>
              ret'.outcome = "SchemaError"]_vars

\* insert_into_table failed on a table that run_sql had created
C10_Witness ==
    /\ ret.op = "insert_into_table"
    /\ ret.table \in created
    /\ ret.outcome = "SchemaError"

====
